---- MODULE Spec2Model ----
(***************************************************************************)
(* Model of app.py, the Titanic A/B testing Streamlit script.              *)
(*                                                                         *)
(* One Streamlit session: the script is executed from top to bottom on     *)
(* every user interaction.  A script run is one atomic step of the model.  *)
(* The session state is the dictionary st.session_state, modelled as a     *)
(* function from the keys that are present to their values.  Optional      *)
(* Python values are tuples: None is <<>> and a value v is <<v>>.          *)
(* Times are integers (clock ticks) standing for the floats of time.time().*)
(***************************************************************************)
EXTENDS Integers, FiniteSets, Sequences, TLC

VARIABLES
    session_state,  \* st.session_state: function from present keys to values
    data_cache,     \* st.cache_data entry of load_data: "none" or the dataset kind
    buttons,        \* the buttons rendered on the page by the last script run
    messages,       \* the st.success / st.warning / st.error boxes of the last run
    rendered,       \* the chart function called by the last run (None if none)
    exception,      \* uncaught exception that stopped the last run ("none" if none)
    last_click,     \* the button whose click triggered the last run ("none": plain rerun)
    handled,        \* the handler body the last run executed ("none" if none)
    prev_phase,     \* phase of the session when the last run started
    t_show,         \* value of time.time() read by the last executed show handler
    t_answer,       \* value of time.time() read by the last executed answer handler
    conn_result     \* outcome of conn.read() in the last execution of load_data

vars == <<session_state, data_cache, buttons, messages, rendered, exception,
          last_click, handled, prev_phase, t_show, t_answer, conn_result>>

----------------------------------------------------------------------------
(* Bounds *)

MaxClock == 3

(* Values time.time() can return: seconds since the epoch, 0 at the epoch. *)
Clock == 0..MaxClock

----------------------------------------------------------------------------
(* Python values *)

None == <<>>
Some(v) == <<v>>

(* Truthiness of an optional float: None and 0.0 are falsy. *)
TruthyNum(v) == v # None /\ v[1] # 0

(* Truthiness of an optional string: None and "" are falsy. *)
TruthyStr(v) == v # None /\ v[1] # ""

(* Button labels *)
ShowBtn == "Show a chart"
AnswerBtn == "I answered your question"
GoBackBtn == "Go Back"

(* random.choice(['chart1', 'chart2']) *)
Charts == {"chart1", "chart2"}

----------------------------------------------------------------------------
(* st.session_state *)

EmptySession == [k \in {} |-> None]

Has(ss, k) == k \in DOMAIN ss

SetKey(ss, k, v) == [x \in (DOMAIN ss) \cup {k} |-> IF x = k THEN v ELSE ss[x]]

DelKey(ss, k) == [x \in (DOMAIN ss) \ {k} |-> ss[x]]

InitKeys == {"start_time", "chart_displayed", "selected_chart", "answered"}

InitValue(k) ==
    CASE k = "start_time"      -> None
      [] k = "chart_displayed" -> FALSE
      [] k = "selected_chart"  -> None
      [] k = "answered"        -> FALSE

(* Session State Initialization: a key is set only when it is missing. *)
SessionInit(ss) ==
    [k \in (DOMAIN ss) \cup InitKeys |-> IF k \in DOMAIN ss THEN ss[k] ELSE InitValue(k)]

Initialised(ss) == InitKeys \subseteq DOMAIN ss

Phase(ss) ==
    IF ~Initialised(ss) THEN "NoSession"
    ELSE IF ~ss["chart_displayed"] THEN "Idle"
    ELSE IF ~ss["answered"] THEN "Showing"
    ELSE "Answered"

----------------------------------------------------------------------------
(* load_data *)

PrimaryOutcomes == {"ok", "malformed", "raises"}
FallbackOutcomes == {"ok", "raises"}

(* The body of load_data for an outcome p of conn.read() and an outcome f  *)
(* of sns.load_dataset('titanic').  The fallback is called in the except   *)
(* handler, outside any try.                                               *)
load_data(p, f) ==
    IF p # "raises"
    THEN [raised |-> FALSE,
          data |-> IF p = "ok" THEN "primary" ELSE "malformed",
          msgs |-> {"load_success"}]
    ELSE IF f = "ok"
    THEN [raised |-> FALSE, data |-> "fallback", msgs |-> {"load_warning"}]
    ELSE [raised |-> TRUE, data |-> "none", msgs |-> {"load_warning"}]

(* st.cache_data replays the st elements of the cached call. *)
CachedMsgs(d) == IF d = "fallback" THEN {"load_warning"} ELSE {"load_success"}

(* chart1 / chart2 group by pclass, sex and survived: they raise when the  *)
(* columns are missing.                                                    *)
ChartRaises(d) == d = "malformed"

----------------------------------------------------------------------------
(* Handlers *)

ShowHandler_NoChart(ss, t, pick) ==
    SetKey(SetKey(ss, "start_time", Some(t)), "chart_displayed", TRUE)

ShowHandler(ss, t, pick) ==
    SetKey(SetKey(SetKey(ss, "start_time", Some(t)),
                  "selected_chart", Some(pick)),
           "chart_displayed", TRUE)

AnswerHandler_ClearsStart(ss, t) ==
    LET s1 == IF TruthyNum(ss["start_time"])
              THEN SetKey(ss, "elapsed_time", Some(t - ss["start_time"][1]))
              ELSE ss
    IN SetKey(SetKey(s1, "start_time", None), "answered", TRUE)

AnswerHandler_OnlyIfTimed(ss, t) ==
    IF TruthyNum(ss["start_time"])
    THEN SetKey(SetKey(ss, "elapsed_time", Some(t - ss["start_time"][1])),
                "answered", TRUE)
    ELSE ss

AnswerHandler(ss, t) ==
    LET s1 == IF TruthyNum(ss["start_time"])
              THEN SetKey(ss, "elapsed_time", Some(t - ss["start_time"][1]))
              ELSE ss
    IN SetKey(s1, "answered", TRUE)

AnswerError(ss) == ~TruthyNum(ss["start_time"])

GoBackHandler_KeepsElapsed(ss) ==
    SetKey(SetKey(SetKey(SetKey(ss, "chart_displayed", FALSE),
                         "start_time", None),
                  "selected_chart", None),
           "answered", FALSE)

GoBackHandler(ss) ==
    LET s1 == SetKey(SetKey(SetKey(SetKey(ss, "chart_displayed", FALSE),
                                   "start_time", None),
                            "selected_chart", None),
                     "answered", FALSE)
    IN IF Has(s1, "elapsed_time") THEN DelKey(s1, "elapsed_time") ELSE s1

----------------------------------------------------------------------------
(* Guards of the widgets *)

ShowButtonShown(ss) == ~ss["chart_displayed"]

ChartSectionShown(ss) == ss["chart_displayed"] /\ TruthyStr(ss["selected_chart"])

ChartFunction_AlwaysChart1(ss) == "chart1"

ChartFunction(ss) == IF ss["selected_chart"] = Some("chart1") THEN "chart1" ELSE "chart2"

AnswerButtonShown_Always(ss) == TRUE

AnswerButtonShown(ss) == ~ss["answered"]

GoBackShown(ss) == ss["answered"]

ElapsedMessageShown(ss) == Has(ss, "elapsed_time") /\ ss["elapsed_time"] # None

----------------------------------------------------------------------------
(* One execution of the script body below load_data, for the session state *)
(* ss0 it starts from, the clicked button (or "none"), the value t that    *)
(* time.time() returns, the value pick that random.choice returns and the  *)
(* dataset d.  rerun is set when the run ended in st.rerun().              *)

Result(ss, btns, msgs, rend, exc, hnd, rr) ==
    [ss |-> ss, buttons |-> btns, msgs |-> msgs, rendered |-> rend,
     exception |-> exc, handled |-> hnd, rerun |-> rr]

ChartSection(s1, click, t, d, btns0) ==
    IF ~ChartSectionShown(s1)
    THEN Result(s1, btns0, {}, None, "none", "none", FALSE)
    ELSE IF ChartRaises(d)
    THEN Result(s1, btns0, {}, Some(ChartFunction(s1)), "chart", "none", FALSE)
    ELSE
      LET rend     == Some(ChartFunction(s1))
          ansShown == AnswerButtonShown(s1)
          ansClick == ansShown /\ click = AnswerBtn
          s2       == IF ansClick THEN AnswerHandler(s1, t) ELSE s1
          errMsgs  == IF ansClick /\ AnswerError(s1) THEN {"error_start_time"} ELSE {}
          btns1    == btns0 \cup (IF ansShown THEN {AnswerBtn} ELSE {})
          hnd      == IF ansClick THEN "answer" ELSE "none"
      IN IF ~GoBackShown(s2)
         THEN Result(s2, btns1, errMsgs, rend, "none", hnd, FALSE)
         ELSE
           LET okMsgs == IF ElapsedMessageShown(s2) THEN {"success_elapsed"} ELSE {}
           IN IF click = GoBackBtn
              THEN Result(GoBackHandler(s2), btns1 \cup {GoBackBtn},
                          errMsgs \cup okMsgs, rend, "none", "goback", TRUE)
              ELSE Result(s2, btns1 \cup {GoBackBtn},
                          errMsgs \cup okMsgs, rend, "none", hnd, FALSE)

Body(ss0, click, t, pick, d) ==
    LET s1 == SessionInit(ss0)
    IN IF ShowButtonShown(s1) /\ click = ShowBtn
       THEN Result(ShowHandler(s1, t, pick), {ShowBtn}, {}, None, "none", "show", TRUE)
       ELSE ChartSection(s1, click, t, d,
                         IF ShowButtonShown(s1) THEN {ShowBtn} ELSE {})

(* st.rerun() stops the run and executes the script again without a click. *)
Script(ss0, click, t, pick, d) ==
    LET r1 == Body(ss0, click, t, pick, d)
    IN IF r1.rerun
       THEN LET r2 == Body(r1.ss, "none", t, pick, d)
            IN [r2 EXCEPT !.handled = r1.handled]
       ELSE r1

----------------------------------------------------------------------------
(* State machine *)

Init ==
    /\ session_state = EmptySession
    /\ data_cache = "none"
    /\ buttons = {}
    /\ messages = {}
    /\ rendered = None
    /\ exception = "none"
    /\ last_click = "none"
    /\ handled = "none"
    /\ prev_phase = "NoSession"
    /\ t_show = None
    /\ t_answer = None
    /\ conn_result = "none"

(* The part of a run after data = load_data() returned the dataset d. *)
Finish(click, t, pick, d, loadMsgs) ==
    LET r == Script(session_state, click, t, pick, d)
    IN /\ session_state' = r.ss
       /\ buttons' = r.buttons
       /\ messages' = loadMsgs \cup r.msgs
       /\ rendered' = r.rendered
       /\ exception' = r.exception
       /\ handled' = r.handled
       /\ t_show' = IF r.handled = "show" THEN Some(t) ELSE t_show
       /\ t_answer' = IF r.handled = "answer" THEN Some(t) ELSE t_answer

(* A whole script run triggered by a click (or by a plain rerun). *)
Run(click, t, pick) ==
    /\ last_click' = click
    /\ prev_phase' = Phase(session_state)
    /\ IF data_cache # "none"
       THEN /\ UNCHANGED <<data_cache, conn_result>>
            /\ Finish(click, t, pick, data_cache, CachedMsgs(data_cache))
       ELSE \E p \in PrimaryOutcomes, f \in FallbackOutcomes :
              LET l == load_data(p, f)
              IN /\ conn_result' = p
                 /\ IF l.raised
                    THEN /\ data_cache' = "none"
                         /\ exception' = "load_data"
                         /\ messages' = l.msgs
                         /\ buttons' = {}
                         /\ rendered' = None
                         /\ handled' = "none"
                         /\ UNCHANGED <<session_state, t_show, t_answer>>
                    ELSE /\ data_cache' = l.data
                         /\ Finish(click, t, pick, l.data, l.msgs)

(* The page is (re)run without any button click. *)
Rerun == \E t \in Clock, pick \in Charts : Run("none", t, pick)

ClickShowPick(pick) ==
    /\ ShowBtn \in buttons
    /\ \E t \in Clock : Run(ShowBtn, t, pick)

ClickShow == \E pick \in Charts : ClickShowPick(pick)

ClickAnswered ==
    /\ AnswerBtn \in buttons
    /\ \E t \in Clock, pick \in Charts : Run(AnswerBtn, t, pick)

ClickGoBack ==
    /\ GoBackBtn \in buttons
    /\ \E t \in Clock, pick \in Charts : Run(GoBackBtn, t, pick)

Next == Rerun \/ ClickShow \/ ClickAnswered \/ ClickGoBack

Spec == Init /\ [][Next]_vars

----------------------------------------------------------------------------
(* Fields of the current session, with the value a missing key stands for *)

start_time == IF Has(session_state, "start_time") THEN session_state["start_time"] ELSE None

chart_displayed == Has(session_state, "chart_displayed") /\ session_state["chart_displayed"]

selected_chart ==
    IF Has(session_state, "selected_chart") THEN session_state["selected_chart"] ELSE None

answered == Has(session_state, "answered") /\ session_state["answered"]

elapsed_time ==
    IF Has(session_state, "elapsed_time") THEN session_state["elapsed_time"] ELSE None

StartTimeOf(ss) == IF Has(ss, "start_time") THEN ss["start_time"] ELSE None

----------------------------------------------------------------------------
(* C1: at the end of every script run, selected_chart is non-null if and   *)
(* only if chart_displayed is true.                                        *)
C1_SelectedIffDisplayed ==
    Initialised(session_state) => ((selected_chart # None) <=> chart_displayed)

C1_Witness ==
    /\ handled = "show"
    /\ chart_displayed
    /\ selected_chart # None

(* C2: the Go Back handler leaves the session equal to a freshly           *)
(* initialised one: the four initial keys at their defaults and no         *)
(* elapsed_time key.                                                       *)
C2_ResetGivesDefaults ==
    handled = "goback" => session_state = SessionInit(EmptySession)

C2_Witness ==
    /\ handled = "goback"
    /\ prev_phase = "Answered"
    /\ t_answer # None
    /\ ~Has(session_state, "elapsed_time")

(* C3: after the answer handler ran, answered is true and the run raised   *)
(* nothing; when start_time was missing (falsy) the error box is shown and *)
(* no elapsed_time is recorded.                                            *)
C3_AnsweredRegardless ==
    handled = "answer" =>
        /\ answered
        /\ exception = "none"
        /\ Phase(session_state) = "Answered"
        /\ (~TruthyNum(start_time) =>
               /\ "error_start_time" \in messages
               /\ elapsed_time = None)

C3_Witness ==
    /\ handled = "answer"
    /\ ~TruthyNum(start_time)
    /\ "error_start_time" \in messages
    /\ answered

(* C4: whenever elapsed_time is present it is >= 0 and equals the clock    *)
(* value read by the answer handler minus the one read by the show handler.*)
C4_ElapsedNonNegative ==
    elapsed_time # None =>
        /\ elapsed_time[1] >= 0
        /\ t_show # None /\ t_answer # None
        /\ elapsed_time[1] = t_answer[1] - t_show[1]

(* C5: elapsed_time is present only in states where answered is true.      *)
C5_ElapsedOnlyIfAnswered ==
    elapsed_time # None => answered

C5_Witness ==
    /\ elapsed_time # None
    /\ answered
    /\ handled = "answer"

(* C6: start_time is assigned only by the show handler, keeps its value    *)
(* through the answer handler and through runs without a handler, is set   *)
(* back to None only by the Go Back handler, and is non-null exactly when  *)
(* a chart is displayed.                                                   *)
C6_Step ==
    LET old == StartTimeOf(session_state)
        new == StartTimeOf(session_state')
    IN /\ (new # old =>
             \/ handled' = "show" /\ old = None /\ new = t_show' /\ new # None
             \/ handled' = "goback" /\ new = None)
       /\ (handled' = "show" => new # None /\ new = t_show')
       /\ (handled' = "goback" => new = None)
       /\ (handled' \in {"answer", "none"} => new = old)
       /\ (Initialised(session_state') =>
             ((new # None) <=> session_state'["chart_displayed"]))

C6_StartTimeLifecycle == [][C6_Step]_vars

C6_Witness ==
    /\ handled = "answer"
    /\ start_time # None
    /\ start_time = t_show
    /\ chart_displayed

(* C7: the session only moves Idle -> Showing -> Answered -> Idle, each    *)
(* move made by its own button; any other click, a repeated click on the   *)
(* answer button included, changes no session field.                       *)
C7_Step ==
    LET old == Phase(session_state)
        new == Phase(session_state')
    IN session_state' # session_state =>
         \/ old = "NoSession" /\ new = "Idle" /\ last_click' = "none"
         \/ old = "Idle" /\ new = "Showing" /\ last_click' = ShowBtn
         \/ old = "Showing" /\ new = "Answered" /\ last_click' = AnswerBtn
         \/ old = "Answered" /\ new = "Idle" /\ last_click' = GoBackBtn

C7_OnlyValidTransitions == [][C7_Step]_vars

C7_Witness ==
    /\ last_click = AnswerBtn
    /\ prev_phase = "Answered"
    /\ handled = "none"
    /\ Phase(session_state) = "Answered"

(* C8: load_data never raises; when the primary source fails it returns    *)
(* the fallback dataset with a warning, and when the primary source        *)
(* succeeds it returns the primary data without a warning.                 *)
C8_LoadNeverRaises ==
    conn_result # "none" =>
        /\ exception # "load_data"
        /\ data_cache # "none"
        /\ (conn_result \in {"raises", "malformed"} =>
               data_cache = "fallback" /\ "load_warning" \in messages)
        /\ (conn_result = "ok" =>
               data_cache = "primary" /\ "load_warning" \notin messages)

(* C9: while a chart is displayed selected_chart is chart1 or chart2 and   *)
(* the chart function called is the selected one; whenever the show button *)
(* can be clicked, each of the two charts can be the one selected.         *)
C9_TwoCharts ==
    /\ chart_displayed =>
          /\ selected_chart \in {Some("chart1"), Some("chart2")}
          /\ rendered = selected_chart
    /\ ShowBtn \in buttons =>
          \A c \in {"chart1", "chart2"} :
              ENABLED (ClickShow /\ session_state'["selected_chart"] = Some(c))

C9_Witness ==
    /\ Phase(session_state) = "Answered"
    /\ selected_chart = Some("chart2")
    /\ rendered = Some("chart2")

(* C10: every Answered state has a recorded elapsed_time and the           *)
(* "Start time not recorded" error is never shown.                         *)
C10_ErrorBranchUnreachable ==
    /\ "error_start_time" \notin messages
    /\ Phase(session_state) = "Answered" => elapsed_time # None

====
